---- MODULE Spec2Model ----
(***************************************************************************)
(* A model of dgl's graph operations (src/graph/graph_op.cc): batching and *)
(* partitioning of adjacency-list graphs (Graph) and CSR graphs            *)
(* (ImmutableGraph), line-graph construction, and the two id-array         *)
(* utilities MapParentIdToSubgraphId and ExpandIds.                        *)
(*                                                                         *)
(* Vertex and edge ids are 0-based as in the code; TLA+ sequences are      *)
(* 1-based, so element i of a C++ vector x is x[i + 1] here.               *)
(***************************************************************************)
EXTENDS Integers, Sequences, FiniteSets, TLC

\* ---------------------------------------------------------------- bounds
\* Input graphs of one call: number of graphs, vertices and edges in total.
MaxGraphs == 2
MaxVertices == 2
MaxEdges == 2
\* The same for the immutable graphs of one call.
MaxCSRGraphs == 2
MaxCSRVertices == 2
MaxCSREdges == 2
\* Largest partition count asked of DisjointPartitionByNum (and -MaxNum the least).
MaxNum == 3
\* Id arrays: ids are drawn from 0..MaxId, parent_vids has at most MaxParentLen
\* entries, query at most MaxQueryLen; the parallel loop runs on NumThreads threads.
MaxId == 2
MaxParentLen == 2
MaxQueryLen == 2
NumThreads == 2
\* ExpandIds: ids has at most MaxIdsLen entries, offsets are drawn from 0..MaxOffset.
MaxIdsLen == 2
MaxOffset == 3
\* dgl_id_t is uint64_t; the model keeps unsigned wrap-around with a narrower word.
IdBits == 16
IdModulus == 2 ^ IdBits

\* The sum of the entries of a sequence of numbers.
RECURSIVE SumSeq(_)
SumSeq(s) == IF s = <<>> THEN 0 ELSE s[1] + SumSeq(Tail(s))

\* ------------------------------------------------------- id arithmetic
\* a - b on dgl_id_t (unsigned, wraps).
IdSub(a, b) == (a - b) % IdModulus
\* a + b on dgl_id_t.
IdAdd(a, b) == (a + b) % IdModulus
\* An int64_t converted to the unsigned type of the other operand.
ToUnsigned(x) == x % IdModulus

\* --------------------------------------------------- Graph (adjacency list)
\* One EdgeList per vertex: parallel vectors succ and edge_id.
EmptyEdgeList == [succ |-> <<>>, edge_id |-> <<>>]

\* Graph's default constructor.
EmptyGraph ==
  [adjlist_ |-> <<>>, reverse_adjlist_ |-> <<>>,
   all_edges_src_ |-> <<>>, all_edges_dst_ |-> <<>>, num_edges_ |-> 0]

NumVertices(g) == Len(g.adjlist_)

NumEdges(g) == g.num_edges_

\* Graph::AddVertices: append-only vertex growth.
AddVertices(g, n) ==
  [g EXCEPT !.adjlist_ = @ \o [i \in 1..n |-> EmptyEdgeList],
            !.reverse_adjlist_ = @ \o [i \in 1..n |-> EmptyEdgeList]]

\* Graph::AddEdge: append-only edge insertion, the new edge gets id num_edges_.
AddEdge(g, src, dst) ==
  LET eid == g.num_edges_ IN
  [g EXCEPT !.adjlist_[src + 1].succ = Append(@, dst),
            !.adjlist_[src + 1].edge_id = Append(@, eid),
            !.reverse_adjlist_[dst + 1].succ = Append(@, src),
            !.reverse_adjlist_[dst + 1].edge_id = Append(@, eid),
            !.all_edges_src_ = Append(@, src),
            !.all_edges_dst_ = Append(@, dst),
            !.num_edges_ = @ + 1]

\* ------------------------------------------------------------ LineGraph
\* Mutant of LineGraphKeeps: the backtracking flag is ignored.
LineGraphKeepsAll(backtrack, w, u) == TRUE

\* The condition under which LineGraph adds the edge (i, edge_id[j]).
LineGraphKeeps(backtrack, w, u) == backtrack \/ (~backtrack /\ w # u)

\* The inner loop over adjlist_[v].succ, from position j on.
RECURSIVE LineGraphInner(_, _, _, _, _)
LineGraphInner(acc, g, i, j, backtrack) ==
  LET u == g.all_edges_src_[i + 1]
      v == g.all_edges_dst_[i + 1]
      el == g.adjlist_[v + 1]
  IN IF j >= Len(el.succ) THEN acc
     ELSE LineGraphInner(
            IF LineGraphKeeps(backtrack, el.succ[j + 1], u)
              THEN AddEdge(acc, i, el.edge_id[j + 1]) ELSE acc,
            g, i, j + 1, backtrack)

\* The outer loop over all_edges_src_, from edge i on.
RECURSIVE LineGraphOuter(_, _, _, _)
LineGraphOuter(acc, g, i, backtrack) ==
  IF i >= Len(g.all_edges_src_) THEN acc
  ELSE LineGraphOuter(LineGraphInner(acc, g, i, 0, backtrack), g, i + 1, backtrack)

LineGraph(g, backtrack) ==
  LineGraphOuter(AddVertices(EmptyGraph, NumEdges(g)), g, 0, backtrack)

\* ------------------------------------------------- DisjointUnion (Graph)
\* Mutant of UnionEndpoint: the cumulative vertex count is not added.
UnionEndpointNoShift(v, cumsum) == v

\* The endpoint of an edge of the current graph in the union.
UnionEndpoint(v, cumsum) == IdAdd(v, cumsum)

\* The edge loop of DisjointUnion for one input graph, from edge i on.
RECURSIVE UnionEdges(_, _, _, _)
UnionEdges(acc, gr, i, cumsum) ==
  IF i >= NumEdges(gr) THEN acc
  ELSE UnionEdges(AddEdge(acc, UnionEndpoint(gr.all_edges_src_[i + 1], cumsum),
                               UnionEndpoint(gr.all_edges_dst_[i + 1], cumsum)),
                  gr, i + 1, cumsum)

\* The loop over the input graphs, from graph k (1-based) on.
RECURSIVE UnionLoop(_, _, _, _)
UnionLoop(acc, gs, k, cumsum) ==
  IF k > Len(gs) THEN acc
  ELSE UnionLoop(UnionEdges(AddVertices(acc, NumVertices(gs[k])), gs[k], 0, cumsum),
                 gs, k + 1, cumsum + NumVertices(gs[k]))

DisjointUnion(gs) == UnionLoop(EmptyGraph, gs, 1, 0)

\* ------------------------------------------- partition argument checks
\* cumsum of DisjointPartitionBySizes: cumsum[i + 1] = sizes[0] + ... + sizes[i - 1].
RECURSIVE CumSum(_)
CumSum(s) ==
  IF s = <<>> THEN <<0>>
  ELSE LET c == CumSum(SubSeq(s, 1, Len(s) - 1)) IN Append(c, c[Len(c)] + s[Len(s)])

\* CHECK(num != 0 && graph->NumVertices() % num == 0); the uint64_t % int64_t
\* is taken on the unsigned conversion of num.
ByNumCheck(nv, n) == n # 0 /\ nv % ToUnsigned(n) = 0

\* Mutant of BySizesCheck: sizes that cover only part of the graph pass.
BySizesCheckAtMost(nv, s) == CumSum(s)[Len(s) + 1] <= nv

\* CHECK_EQ(cumsum[len], graph->NumVertices()).
BySizesCheck(nv, s) == CumSum(s)[Len(s) + 1] = nv

\* std::fill(sizes_data, sizes_data + num, NumVertices / num).
FillSizes(nv, n) == [i \in 1..n |-> nv \div n]

\* ------------------------------------- DisjointPartitionBySizes (Graph)
\* Mutant of RelabelEdgeList: the edge ids keep their batched values.
RelabelEdgeListKeepEdgeId(el, node_offset, edge_offset) ==
  [succ |-> [j \in 1..Len(el.succ) |-> IdSub(el.succ[j], node_offset)],
   edge_id |-> el.edge_id]

\* "relabel adjs": succ[j] -= node_offset; edge_id[j] -= edge_offset.
RelabelEdgeList(el, node_offset, edge_offset) ==
  [succ |-> [j \in 1..Len(el.succ) |-> IdSub(el.succ[j], node_offset)],
   edge_id |-> [j \in 1..Len(el.edge_id) |-> IdSub(el.edge_id[j], edge_offset)]]

\* The adjacency slice [node_offset, node_offset + size) of a list of EdgeLists.
AdjSlice(adj, node_offset, size) == SubSeq(adj, node_offset + 1, node_offset + size)

\* num_edges of a partition: the adjacency entries of its forward lists.
RECURSIVE CountSucc(_)
CountSucc(adj) ==
  IF adj = <<>> THEN 0 ELSE Len(adj[1].succ) + CountSucc(Tail(adj))

\* One iteration of the partition loop: the graph rst[i].
PartitionOne(graph, node_offset, edge_offset, size) ==
  LET adj == AdjSlice(graph.adjlist_, node_offset, size)
      radj == AdjSlice(graph.reverse_adjlist_, node_offset, size)
      num_edges == CountSucc(adj)
  IN [adjlist_ |-> [v \in 1..Len(adj) |->
                      RelabelEdgeList(adj[v], node_offset, edge_offset)],
      reverse_adjlist_ |-> [v \in 1..Len(radj) |->
                      RelabelEdgeList(radj[v], node_offset, edge_offset)],
      all_edges_src_ |-> [j \in 1..num_edges |->
                      IdSub(graph.all_edges_src_[edge_offset + j], node_offset)],
      all_edges_dst_ |-> [j \in 1..num_edges |->
                      IdSub(graph.all_edges_dst_[edge_offset + j], node_offset)],
      num_edges_ |-> num_edges]

\* The partition loop from partition i (1-based) on.
RECURSIVE PartitionLoop(_, _, _, _, _, _)
PartitionLoop(acc, graph, s, i, node_offset, edge_offset) ==
  IF i > Len(s) THEN acc
  ELSE LET p == PartitionOne(graph, node_offset, edge_offset, s[i])
       IN PartitionLoop(Append(acc, p), graph, s, i + 1,
                        node_offset + s[i], edge_offset + p.num_edges_)

DisjointPartitionBySizes(graph, s) == PartitionLoop(<<>>, graph, s, 1, 0, 0)

\* ------------------------------------------------ ImmutableGraph (CSR)
\* CSR(num_vertices, expected_num_edges): indptr has num_vertices + 1 entries,
\* indices and edge_ids start empty and are filled by push_back.
NewCSR(num_vertices, expected_num_edges) ==
  [indptr |-> [i \in 1..(num_vertices + 1) |-> 0], indices |-> <<>>, edge_ids |-> <<>>]

CSRNumVertices(c) == Len(c.indptr) - 1

CSRNumEdges(c) == Len(c.indices)

\* ---------------------------------------- DisjointUnion (ImmutableGraph)
\* Mutant of UnionIndptrEntry: the cumulative edge count is not added.
UnionIndptrEntryNoShift(x, cum_num_edges) == x

\* The value stored in the batched indptr for row i of the current graph.
UnionIndptrEntry(x, cum_num_edges) == x + cum_num_edges

\* The value pushed to the batched indices for an entry of the current graph.
UnionIndexEntry(x, cum_num_nodes) == IdAdd(x, cum_num_nodes)

\* The value pushed to the batched edge_ids for an entry of the current graph.
UnionEdgeIdEntry(x, cum_num_edges) == IdAdd(x, cum_num_edges)

\* The body of the loop over the input graphs, for graph g.
CSRUnionOne(acc, g, indptr_idx, cum_num_nodes, cum_num_edges) ==
  [indptr |-> [p \in 1..Len(acc.indptr) |->
                 IF p - 1 >= indptr_idx /\ p - 1 < indptr_idx + Len(g.indptr) - 1
                   THEN UnionIndptrEntry(g.indptr[p - indptr_idx + 1], cum_num_edges)
                   ELSE acc.indptr[p]],
   indices |-> acc.indices \o
                 [i \in 1..Len(g.indices) |-> UnionIndexEntry(g.indices[i], cum_num_nodes)],
   edge_ids |-> acc.edge_ids \o
                 [i \in 1..Len(g.edge_ids) |-> UnionEdgeIdEntry(g.edge_ids[i], cum_num_edges)]]

\* The loop over the input graphs, from graph k (1-based) on.
RECURSIVE CSRUnionLoop(_, _, _, _, _, _)
CSRUnionLoop(acc, gs, k, indptr_idx, cum_num_nodes, cum_num_edges) ==
  IF k > Len(gs) THEN acc
  ELSE CSRUnionLoop(CSRUnionOne(acc, gs[k], indptr_idx, cum_num_nodes, cum_num_edges),
                    gs, k + 1,
                    indptr_idx + Len(gs[k].indptr) - 1,
                    cum_num_nodes + CSRNumVertices(gs[k]),
                    cum_num_edges + CSRNumEdges(gs[k]))

CSRDisjointUnion(gs) ==
  LET num_nodes == SumSeq([k \in 1..Len(gs) |-> CSRNumVertices(gs[k])])
      num_edges == SumSeq([k \in 1..Len(gs) |-> CSRNumEdges(gs[k])])
  IN CSRUnionLoop(NewCSR(num_nodes, num_edges), gs, 1, 1, 0, 0)

\* ------------------------------- DisjointPartitionBySizes (ImmutableGraph)
\* One iteration of the partition loop: the in-CSR of partition i, for the
\* vertex range [start_pos, end_pos).
CSRPartitionOne(bg, start_pos, end_pos, size, cum_sum_edges) ==
  LET lo == bg.indptr[start_pos + 1]
      hi == bg.indptr[end_pos + 1]
      g == NewCSR(size, hi - lo)
  IN [indptr |-> [p \in 1..Len(g.indptr) |->
                    IF p - 1 >= 1 /\ p - 1 <= end_pos - start_pos
                      THEN bg.indptr[start_pos + p] - lo
                      ELSE g.indptr[p]],
      indices |-> [j \in 1..(hi - lo) |-> IdSub(bg.indices[lo + j], start_pos)],
      edge_ids |-> [k \in 1..(hi - lo) |-> IdSub(bg.edge_ids[lo + k], cum_sum_edges)]]

\* The partition loop from partition i (1-based) on.
RECURSIVE CSRPartitionLoop(_, _, _, _, _)
CSRPartitionLoop(acc, bg, s, i, cum_sum_edges) ==
  IF i > Len(s) THEN acc
  ELSE LET cumsum == CumSum(s)
           start_pos == cumsum[i]
           end_pos == cumsum[i + 1]
           g_num_edges == bg.indptr[end_pos + 1] - bg.indptr[start_pos + 1]
       IN CSRPartitionLoop(
            Append(acc, CSRPartitionOne(bg, start_pos, end_pos, s[i], cum_sum_edges)),
            bg, s, i + 1, cum_sum_edges + g_num_edges)

CSRDisjointPartitionBySizes(bg, s) == CSRPartitionLoop(<<>>, bg, s, 1, 0)

\* -------------------------------------------------------------- IdArray
\* An array is its descriptor (device, ndim, dtype code and bits, shape) and
\* its data; shape[0] of the code is shape[1] here.
IdArray(d) ==
  [device_type |-> "kDLCPU", ndim |-> 1, code |-> "kDLInt", bits |-> 64,
   shape |-> <<Len(d)>>, data |-> d]

IsValidIdArray(arr) ==
  /\ arr.device_type = "kDLCPU"
  /\ arr.ndim = 1
  /\ arr.code = "kDLInt"
  /\ arr.bits = 64

\* ------------------------------------------- MapParentIdToSubgraphId
\* std::is_sorted(parent_data, parent_data + parent_len).
IsSorted(d) == \A i \in 1..(Len(d) - 1) : d[i] <= d[i + 1]

\* The sorted path: std::find, the first position holding id, or -1.
ScanLookup(parent_data, id) ==
  IF \E p \in 1..Len(parent_data) : parent_data[p] = id
    THEN (CHOOSE p \in 1..Len(parent_data) :
            /\ parent_data[p] = id
            /\ \A q \in 1..(p - 1) : parent_data[q] # id) - 1
    ELSE -1

\* Mutant of MapInsert: the map keeps the 1-based position.
MapInsertOffByOne(m, id, i) == (id :> i + 1) @@ m

\* parent_map[id] = i.
MapInsert(m, id, i) == (id :> i) @@ m

\* The hash path: parent_map.find(id), its value or -1.
HashLookup(m, id) == IF id \in DOMAIN m THEN m[id] ELSE -1

\* The map with no key.
EmptyMap == [k \in {} |-> 0]

\* Mutant of MapSlot: every iteration writes the first slot.
MapSlotFirst(i) == 0

\* The slot of rst_data that iteration i of the parallel loop writes.
MapSlot(i) == i

\* ------------------------------------------------------------ ExpandIds
\* Mutant of ExpandSlot: the inner index j is dropped.
ExpandSlotNoInner(off_i, j) == off_i

\* The slot rst_data[off_data[i] + j] written by the inner loop.
ExpandSlot(off_i, j) == off_i + j

\* The writes of ExpandIds' loops, <<slot, value>> in program order, from i on.
RECURSIVE ExpandWrites(_, _, _)
ExpandWrites(id_data, off_data, i) ==
  IF i >= Len(id_data) THEN <<>>
  ELSE LET local_len == off_data[i + 2] - off_data[i + 1]
           inner == IF local_len <= 0 THEN <<>>
                    ELSE [j \in 1..local_len |->
                            <<ExpandSlot(off_data[i + 1], j - 1), id_data[i + 1]>>]
       IN inner \o ExpandWrites(id_data, off_data, i + 1)

\* The slots of an array of length len after the writes w: the last value
\* written to each slot that was written.
SlotsAfter(w, len) ==
  LET hit == {x \in 1..Len(w) : w[x][1] >= 0 /\ w[x][1] < len}
      last(p) == CHOOSE x \in hit : w[x][1] = p /\ \A y \in hit : w[y][1] = p => y <= x
  IN [p \in {w[x][1] : x \in hit} |-> w[last(p)][2]]

\* Whether some write of w falls outside an array of length len.
OutOfBounds(w, len) == \E x \in 1..Len(w) : w[x][1] < 0 \/ w[x][1] >= len

\* ================================================================ state
VARIABLES
  repr,          \* which overload family is exercised: "Graph", "ImmutableGraph", "IdArray"
  op,            \* the operation called last ("none" before the first call)
  pc,            \* position of the caller / of the running operation
  graphs,        \* the input graphs of DisjointUnion, in order
  batched,       \* the graph returned by DisjointUnion
  backtracking,  \* LineGraph's flag
  lg,            \* the graph returned by LineGraph
  num,           \* DisjointPartitionByNum's num
  sizes,         \* the data of DisjointPartitionBySizes' sizes array
  rst,           \* the vector returned by DisjointPartitionBySizes
  allocated,     \* whether the output (vector rst, or array rst) has been allocated
  parent_vids,   \* MapParentIdToSubgraphId's arguments
  query,
  ids,           \* ExpandIds' arguments
  offset,
  data_read,     \* whether the running operation has read an argument array's data
  is_sorted,     \* MapParentIdToSubgraphId's is_sorted
  parent_map,    \* its parent_map, a function from the keys inserted so far
  built,         \* the index i of the loop that builds parent_map
  sched,         \* the thread that runs each iteration of the parallel loop
  ran,           \* the iterations of the parallel loop that have run
  rst_len,       \* shape[0] of the output array rst
  rst_data,      \* the slots of rst written so far (the others are indeterminate)
  writes         \* for each slot of rst, the threads that wrote it, in order

graphVars == <<graphs, batched, backtracking, lg, num, sizes, rst>>

arrVars == <<parent_vids, query, ids, offset, data_read, is_sorted, parent_map, built,
             sched, ran, rst_len, rst_data, writes>>

vars == <<repr, op, pc, allocated, graphVars, arrVars>>

\* ------------------------------------------------------------- inputs
TotalVertices == SumSeq([k \in 1..Len(graphs) |-> NumVertices(graphs[k])])

TotalEdges == SumSeq([k \in 1..Len(graphs) |-> NumEdges(graphs[k])])

CSRTotalVertices == SumSeq([k \in 1..Len(graphs) |-> CSRNumVertices(graphs[k])])

CSRTotalEdges == SumSeq([k \in 1..Len(graphs) |-> CSRNumEdges(graphs[k])])

\* The sizes arrays a caller may pass: any list of non-negative sizes.
SizesUpTo(len, total) ==
  UNION {{s \in [1..k -> 0..total] : SumSeq(s) <= total} : k \in 0..len}

SizesSet ==
  IF repr = "Graph" THEN SizesUpTo(MaxGraphs, MaxVertices)
                    ELSE SizesUpTo(MaxCSRGraphs, MaxCSRVertices)

NumSet == (0 - MaxNum)..MaxNum

\* The in-CSRs of graphs with n vertices and e edges: indptr non-decreasing
\* from 0 to e, neighbours in [0, n), edge_ids a permutation of [0, e).
CSRSet(n, e) ==
  {[indptr |-> ip, indices |-> ix, edge_ids |-> ei] :
     ip \in {f \in [1..(n + 1) -> 0..e] :
               /\ f[1] = 0
               /\ f[n + 1] = e
               /\ \A i \in 1..n : f[i] <= f[i + 1]},
     ix \in [1..e -> 0..(n - 1)],
     ei \in {f \in [1..e -> 0..(e - 1)] : \A i, j \in 1..e : f[i] = f[j] => i = j}}

\* Every in-CSR within the bounds, by vertex and edge count.
AllCSRs == [n \in 0..MaxCSRVertices, e \in 0..MaxCSREdges |-> CSRSet(n, e)]

\* ----------------------------------------------------- array inputs
\* The descriptors a caller may pass: the valid one, and one per way of
\* breaking IsValidIdArray.
DescSet ==
  {[device_type |-> "kDLCPU", ndim |-> 1, code |-> "kDLInt", bits |-> 64],
   [device_type |-> "kDLGPU", ndim |-> 1, code |-> "kDLInt", bits |-> 64],
   [device_type |-> "kDLCPU", ndim |-> 2, code |-> "kDLInt", bits |-> 64],
   [device_type |-> "kDLCPU", ndim |-> 1, code |-> "kDLFloat", bits |-> 64],
   [device_type |-> "kDLCPU", ndim |-> 1, code |-> "kDLInt", bits |-> 32]}

\* The array with descriptor desc over the elements d.
ArrayOf(desc, d) ==
  [device_type |-> desc.device_type, ndim |-> desc.ndim, code |-> desc.code,
   bits |-> desc.bits,
   shape |-> IF desc.ndim = 1 THEN <<Len(d)>> ELSE <<Len(d), 1>>,
   data |-> d]

SeqsUpTo(len, S) == UNION {[1..k -> S] : k \in 0..len}

\* The values of the array variables while no array operation runs.
NoArrays ==
  /\ parent_vids = IdArray(<<>>)
  /\ query = IdArray(<<>>)
  /\ ids = IdArray(<<>>)
  /\ offset = IdArray(<<>>)
  /\ data_read = FALSE
  /\ is_sorted = FALSE
  /\ parent_map = EmptyMap
  /\ built = 0
  /\ sched = <<>>
  /\ ran = {}
  /\ rst_len = 0
  /\ rst_data = EmptyMap
  /\ writes = <<>>

NoGraphs ==
  /\ graphs = <<>>
  /\ batched = EmptyGraph
  /\ backtracking = FALSE
  /\ lg = EmptyGraph
  /\ num = 0
  /\ sizes = <<>>
  /\ rst = <<>>

\* -------------------------------------------------------------- Init
InitGraph ==
  /\ repr = "Graph"
  /\ op = "none"
  /\ pc = "build"
  /\ graphs = <<>>
  /\ batched = EmptyGraph
  /\ backtracking = FALSE
  /\ lg = EmptyGraph
  /\ num = 0
  /\ sizes = <<>>
  /\ allocated = FALSE
  /\ rst = <<>>
  /\ NoArrays

InitCSR ==
  /\ repr = "ImmutableGraph"
  /\ op = "none"
  /\ pc = "build"
  /\ graphs = <<>>
  /\ batched = NewCSR(0, 0)
  /\ backtracking = FALSE
  /\ lg = EmptyGraph
  /\ num = 0
  /\ sizes = <<>>
  /\ allocated = FALSE
  /\ rst = <<>>
  /\ NoArrays

\* ------------------------------------------------ building the inputs
\* The caller starts another input graph with n vertices.
NewGraph(n) ==
  /\ repr = "Graph" /\ pc = "build"
  /\ Len(graphs) < MaxGraphs
  /\ TotalVertices + n <= MaxVertices
  /\ graphs' = Append(graphs, AddVertices(EmptyGraph, n))
  /\ UNCHANGED <<repr, op, pc, batched, backtracking, lg, num, sizes, allocated, rst>>
  /\ UNCHANGED arrVars

\* The caller adds the edge (u, v) to the input graph under construction.
InsertEdge(u, v) ==
  /\ repr = "Graph" /\ pc = "build"
  /\ graphs # <<>>
  /\ TotalEdges < MaxEdges
  /\ u < NumVertices(graphs[Len(graphs)])
  /\ v < NumVertices(graphs[Len(graphs)])
  /\ graphs' = [graphs EXCEPT ![Len(graphs)] = AddEdge(@, u, v)]
  /\ UNCHANGED <<repr, op, pc, batched, backtracking, lg, num, sizes, allocated, rst>>
  /\ UNCHANGED arrVars

\* The caller hands over another immutable graph, given by its in-CSR.
NewImmutableGraph(c) ==
  /\ repr = "ImmutableGraph" /\ pc = "build"
  /\ Len(graphs) < MaxCSRGraphs
  /\ CSRTotalVertices + CSRNumVertices(c) <= MaxCSRVertices
  /\ CSRTotalEdges + CSRNumEdges(c) <= MaxCSREdges
  /\ graphs' = Append(graphs, c)
  /\ UNCHANGED <<repr, op, pc, batched, backtracking, lg, num, sizes, allocated, rst>>
  /\ UNCHANGED arrVars

\* ------------------------------------------------------- operations
CallDisjointUnion ==
  /\ pc = "build"
  /\ batched' = IF repr = "Graph" THEN DisjointUnion(graphs) ELSE CSRDisjointUnion(graphs)
  /\ pc' = "batched"
  /\ op' = "DisjointUnion"
  /\ UNCHANGED <<repr, graphs, backtracking, lg, num, sizes, allocated, rst>>
  /\ UNCHANGED arrVars

CallLineGraph(b) ==
  /\ repr = "Graph" /\ pc = "batched"
  /\ backtracking' = b
  /\ lg' = LineGraph(batched, b)
  /\ pc' = "linegraph"
  /\ op' = "LineGraph"
  /\ UNCHANGED <<repr, graphs, batched, num, sizes, allocated, rst>>
  /\ UNCHANGED arrVars

BatchedNumVertices ==
  IF repr = "Graph" THEN NumVertices(batched) ELSE CSRNumVertices(batched)

\* DisjointPartitionByNum up to its call of DisjointPartitionBySizes, and that
\* call up to its CHECK_EQ. A negative num that passes the CHECK reaches
\* IdArray::Empty({num}), whose outcome the code does not define.
CallDisjointPartitionByNum(n) ==
  /\ pc = "batched"
  /\ num' = n
  /\ IF ~ByNumCheck(BatchedNumVertices, n)
       THEN pc' = "error" /\ sizes' = sizes
       ELSE IF n < 0
         THEN pc' \in {"error", "crash"} /\ sizes' = sizes
         ELSE /\ sizes' = FillSizes(BatchedNumVertices, n)
              /\ pc' = IF BySizesCheck(BatchedNumVertices, sizes') THEN "checked" ELSE "error"
  /\ op' = "DisjointPartitionByNum"
  /\ UNCHANGED <<repr, graphs, batched, backtracking, lg, allocated, rst>>
  /\ UNCHANGED arrVars

\* DisjointPartitionBySizes up to its CHECK_EQ on the sum of the sizes.
CallDisjointPartitionBySizes(s) ==
  /\ pc = "batched"
  /\ sizes' = s
  /\ pc' = IF BySizesCheck(BatchedNumVertices, s) THEN "checked" ELSE "error"
  /\ op' = "DisjointPartitionBySizes"
  /\ UNCHANGED <<repr, graphs, batched, backtracking, lg, num, allocated, rst>>
  /\ UNCHANGED arrVars

\* The rest of DisjointPartitionBySizes: rst is allocated and filled.
FillPartitions ==
  /\ pc = "checked"
  /\ allocated' = TRUE
  /\ rst' = IF repr = "Graph" THEN DisjointPartitionBySizes(batched, sizes)
                              ELSE CSRDisjointPartitionBySizes(batched, sizes)
  /\ pc' = "done"
  /\ UNCHANGED <<repr, op, graphs, batched, backtracking, lg, num, sizes>>
  /\ UNCHANGED arrVars

NextGraph ==
  \/ \E n \in 0..MaxVertices : NewGraph(n)
  \/ \E u, v \in 0..(MaxVertices - 1) : InsertEdge(u, v)
  \/ CallDisjointUnion
  \/ \E b \in BOOLEAN : CallLineGraph(b)
  \/ \E n \in NumSet : CallDisjointPartitionByNum(n)
  \/ \E s \in SizesSet : CallDisjointPartitionBySizes(s)
  \/ FillPartitions

NextCSR ==
  \/ /\ repr = "ImmutableGraph" /\ pc = "build"
     /\ \E n \in 0..(MaxCSRVertices - CSRTotalVertices), e \in 0..(MaxCSREdges - CSRTotalEdges) :
          \E c \in AllCSRs[n, e] : NewImmutableGraph(c)
  \/ CallDisjointUnion
  \/ \E n \in NumSet : CallDisjointPartitionByNum(n)
  \/ \E s \in SizesSet : CallDisjointPartitionBySizes(s)
  \/ FillPartitions

SpecGraph == InitGraph /\ [][NextGraph]_vars

SpecCSR == InitCSR /\ [][NextCSR]_vars

NextPartition ==
  \/ \E n \in 0..MaxVertices : NewGraph(n)
  \/ \E u, v \in 0..(MaxVertices - 1) : InsertEdge(u, v)
  \/ /\ repr = "ImmutableGraph" /\ pc = "build"
     /\ \E n \in 0..(MaxCSRVertices - CSRTotalVertices), e \in 0..(MaxCSREdges - CSRTotalEdges) :
          \E c \in AllCSRs[n, e] : NewImmutableGraph(c)
  \/ CallDisjointUnion
  \/ \E n \in NumSet : CallDisjointPartitionByNum(n)
  \/ \E s \in SizesSet : CallDisjointPartitionBySizes(s)
  \/ FillPartitions

SpecPartition == (InitGraph \/ InitCSR) /\ [][NextPartition]_vars

\* ------------------------------------------- MapParentIdToSubgraphId
\* A caller's arguments.
InitMap ==
  /\ repr = "IdArray"
  /\ op = "MapParentIdToSubgraphId"
  /\ pc = "call"
  /\ allocated = FALSE
  /\ NoGraphs
  /\ \E dp \in DescSet, dq \in DescSet :
       \E p \in SeqsUpTo(MaxParentLen, 0..MaxId), q \in SeqsUpTo(MaxQueryLen, 0..(MaxId + 1)) :
         /\ parent_vids = ArrayOf(dp, p)
         /\ query = ArrayOf(dq, q)
  /\ ids = IdArray(<<>>)
  /\ offset = IdArray(<<>>)
  /\ data_read = FALSE
  /\ is_sorted = FALSE
  /\ parent_map = EmptyMap
  /\ built = 0
  /\ sched = <<>>
  /\ ran = {}
  /\ rst_len = 0
  /\ rst_data = EmptyMap
  /\ writes = <<>>

\* The two CHECKs, the allocation of rst and std::is_sorted.
MapEnter ==
  /\ op = "MapParentIdToSubgraphId" /\ pc = "call"
  /\ IF ~IsValidIdArray(parent_vids) \/ ~IsValidIdArray(query)
       THEN /\ pc' = "error"
            /\ UNCHANGED <<allocated, rst_len, writes, data_read, is_sorted>>
       ELSE /\ allocated' = TRUE
            /\ rst_len' = query.shape[1]
            /\ writes' = [i \in 1..query.shape[1] |-> <<>>]
            /\ data_read' = TRUE
            /\ is_sorted' = IsSorted(parent_vids.data)
            /\ pc' = IF is_sorted' THEN "fork" ELSE "build"
  /\ UNCHANGED <<repr, op, graphVars, parent_vids, query, ids, offset, parent_map, built,
                 sched, ran, rst_data>>

\* One iteration of the loop that fills parent_map.
MapBuildStep ==
  /\ op = "MapParentIdToSubgraphId" /\ pc = "build"
  /\ built < parent_vids.shape[1]
  /\ parent_map' = MapInsert(parent_map, parent_vids.data[built + 1], built)
  /\ built' = built + 1
  /\ UNCHANGED <<repr, op, pc, allocated, graphVars, parent_vids, query, ids, offset,
                 data_read, is_sorted, sched, ran, rst_len, rst_data, writes>>

\* The end of the build loop.
MapBuildDone ==
  /\ op = "MapParentIdToSubgraphId" /\ pc = "build"
  /\ built >= parent_vids.shape[1]
  /\ pc' = "fork"
  /\ UNCHANGED <<repr, op, allocated, graphVars, arrVars>>

\* "#pragma omp parallel for": the iterations are handed to the threads.
MapFork(asg) ==
  /\ op = "MapParentIdToSubgraphId" /\ pc = "fork"
  /\ sched' = asg
  /\ pc' = "parallel"
  /\ UNCHANGED <<repr, op, allocated, graphVars, parent_vids, query, ids, offset,
                 data_read, is_sorted, parent_map, built, ran, rst_len, rst_data, writes>>

\* The iterations of thread t that it has not run yet.
Pending(t) == {i \in 0..(rst_len - 1) : sched[i + 1] = t /\ i \notin ran}

\* Thread t runs its next iteration: one lookup and one store to rst_data.
MapWorkerStep(t) ==
  /\ op = "MapParentIdToSubgraphId" /\ pc = "parallel"
  /\ Pending(t) # {}
  /\ LET i == CHOOSE x \in Pending(t) : \A y \in Pending(t) : x <= y
         id == query.data[i + 1]
         v == IF is_sorted THEN ScanLookup(parent_vids.data, id)
                           ELSE HashLookup(parent_map, id)
     IN /\ rst_data' = (MapSlot(i) :> v) @@ rst_data
        /\ writes' = [writes EXCEPT ![MapSlot(i) + 1] = Append(@, t)]
        /\ ran' = ran \cup {i}
  /\ UNCHANGED <<repr, op, pc, allocated, graphVars, parent_vids, query, ids, offset,
                 data_read, is_sorted, parent_map, built, sched, rst_len>>

\* The end of the parallel region, and the return of rst.
MapJoin ==
  /\ op = "MapParentIdToSubgraphId" /\ pc = "parallel"
  /\ \A t \in 1..NumThreads : Pending(t) = {}
  /\ pc' = "done"
  /\ UNCHANGED <<repr, op, allocated, graphVars, arrVars>>

NextMap ==
  \/ MapEnter
  \/ MapBuildStep
  \/ MapBuildDone
  \/ \E asg \in [1..rst_len -> 1..NumThreads] : MapFork(asg)
  \/ \E t \in 1..NumThreads : MapWorkerStep(t)
  \/ MapJoin

SpecMap == InitMap /\ [][NextMap]_vars

\* ------------------------------------------------------------ ExpandIds
\* A caller's arguments, with the descriptors drawn from descs.
InitExpandWith(descs) ==
  /\ repr = "IdArray"
  /\ op = "ExpandIds"
  /\ pc = "call"
  /\ allocated = FALSE
  /\ NoGraphs
  /\ \E di \in descs, do \in descs :
       \E d \in SeqsUpTo(MaxIdsLen, 0..MaxId), o \in SeqsUpTo(MaxIdsLen + 1, 0..MaxOffset) :
         /\ ids = ArrayOf(di, d)
         /\ offset = ArrayOf(do, o)
  /\ parent_vids = IdArray(<<>>)
  /\ query = IdArray(<<>>)
  /\ data_read = FALSE
  /\ is_sorted = FALSE
  /\ parent_map = EmptyMap
  /\ built = 0
  /\ sched = <<>>
  /\ ran = {}
  /\ rst_len = 0
  /\ rst_data = EmptyMap
  /\ writes = <<>>

\* The whole of ExpandIds. It never looks at the descriptors: on arrays that
\* are not 64-bit host integer vectors the data it reads and the length it
\* allocates are whatever the bytes happen to hold, here an rst of any
\* length with no slot determined, or a crash. A write outside rst is
\* undefined as well: the call may return or crash.
CallExpandIds ==
  /\ op = "ExpandIds" /\ pc = "call"
  /\ IF ids.shape[1] + 1 # offset.shape[1]
       THEN /\ pc' = "error"
            /\ UNCHANGED <<allocated, data_read, rst_len, rst_data, writes>>
       ELSE /\ data_read' = TRUE
            /\ allocated' = TRUE
            /\ IF IsValidIdArray(ids) /\ IsValidIdArray(offset)
                 THEN LET len == offset.data[offset.shape[1]]
                          w == ExpandWrites(ids.data, offset.data, 0)
                      IN /\ rst_len' = len
                         /\ rst_data' = SlotsAfter(w, len)
                         /\ writes' = [p \in 1..len |->
                                         [x \in 1..Cardinality({y \in 1..Len(w) : w[y][1] = p - 1})
                                            |-> 0]]
                         /\ pc' \in IF OutOfBounds(w, len) THEN {"done", "crash"} ELSE {"done"}
                 ELSE /\ rst_len' \in 0..MaxOffset
                      /\ rst_data' = EmptyMap
                      /\ writes' = [p \in 1..rst_len' |-> <<>>]
                      /\ pc' \in {"done", "crash"}
  /\ UNCHANGED <<repr, op, graphVars, parent_vids, query, ids, offset, is_sorted,
                 parent_map, built, sched, ran>>

InitExpand == InitExpandWith({d \in DescSet : IsValidIdArray(d)})

NextExpand == CallExpandIds

SpecExpand == InitExpand /\ [][NextExpand]_vars

\* Both array operations, on arrays of every descriptor.
InitIdArray == InitMap \/ InitExpandWith(DescSet)

NextIdArray ==
  \/ MapEnter
  \/ MapBuildStep
  \/ MapBuildDone
  \/ \E asg \in [1..rst_len -> 1..NumThreads] : MapFork(asg)
  \/ \E t \in 1..NumThreads : MapWorkerStep(t)
  \/ MapJoin
  \/ CallExpandIds

SpecIdArray == InitIdArray /\ [][NextIdArray]_vars

\* ============================================================== claims
\* Vertices and edges of the input graphs before graph k (1-based).
VerticesBefore(k) == SumSeq([j \in 1..(k - 1) |-> NumVertices(graphs[j])])

EdgesBefore(k) == SumSeq([j \in 1..(k - 1) |-> NumEdges(graphs[j])])

CSRVerticesBefore(k) == SumSeq([j \in 1..(k - 1) |-> CSRNumVertices(graphs[j])])

CSREdgesBefore(k) == SumSeq([j \in 1..(k - 1) |-> CSRNumEdges(graphs[j])])

\* C1: partitioning the union of G1..Gk by the graphs' vertex counts returns
\* exactly k graphs and result[i] equals Gi: same vertex count, edge count,
\* edge-id-indexed source/destination arrays and forward and reverse
\* adjacency lists, entry for entry.
C1_RoundTrip ==
  (/\ repr = "Graph" /\ pc = "done"
   /\ sizes = [k \in 1..Len(graphs) |-> NumVertices(graphs[k])])
  => /\ Len(rst) = Len(graphs)
     /\ \A i \in 1..Len(graphs) :
          /\ NumVertices(rst[i]) = NumVertices(graphs[i])
          /\ NumEdges(rst[i]) = NumEdges(graphs[i])
          /\ rst[i].all_edges_src_ = graphs[i].all_edges_src_
          /\ rst[i].all_edges_dst_ = graphs[i].all_edges_dst_
          /\ rst[i].adjlist_ = graphs[i].adjlist_
          /\ rst[i].reverse_adjlist_ = graphs[i].reverse_adjlist_

\* Two graphs that both have vertices and edges, so that the second one's
\* vertex and edge ids are shifted, went through union and partition.
C1_Witness ==
  /\ repr = "Graph" /\ pc = "done"
  /\ Len(graphs) = 2
  /\ sizes = [k \in 1..Len(graphs) |-> NumVertices(graphs[k])]
  /\ NumEdges(graphs[1]) >= 1
  /\ NumEdges(graphs[2]) >= 1
  /\ batched.all_edges_src_[2] >= 1
  /\ rst = graphs

\* C2: the union has the sum of the vertex counts and the sum of the edge
\* counts; the edge with local id e of graph k has id EdgesBefore(k) + e and
\* endpoints shifted by VerticesBefore(k); nothing is merged, dropped or
\* reordered.
C2_UnionLayout ==
  (repr = "Graph" /\ pc # "build")
  => /\ NumVertices(batched) = TotalVertices
     /\ NumEdges(batched) = TotalEdges
     /\ Len(batched.all_edges_src_) = TotalEdges
     /\ Len(batched.all_edges_dst_) = TotalEdges
     /\ \A k \in 1..Len(graphs) : \A e \in 0..(NumEdges(graphs[k]) - 1) :
          /\ batched.all_edges_src_[EdgesBefore(k) + e + 1]
               = graphs[k].all_edges_src_[e + 1] + VerticesBefore(k)
          /\ batched.all_edges_dst_[EdgesBefore(k) + e + 1]
               = graphs[k].all_edges_dst_[e + 1] + VerticesBefore(k)

\* A union of two graphs where the second one brings a multi-edge or two
\* edges and the first one brings vertices.
C2_Witness ==
  /\ repr = "Graph" /\ pc = "batched"
  /\ Len(graphs) = 2
  /\ NumVertices(graphs[1]) >= 1
  /\ NumEdges(graphs[2]) = 2
  /\ NumEdges(batched) = 2

\* Edges i = (u, v) and j = (v, w) of the batched graph form a length-2 path
\* that LineGraph is to keep: with backtracking any, without it those with w # u.
LineGraphPair(i, j) ==
  /\ batched.all_edges_dst_[i + 1] = batched.all_edges_src_[j + 1]
  /\ (backtracking \/ batched.all_edges_dst_[j + 1] # batched.all_edges_src_[i + 1])

\* The position of edge j in the adjacency list of its source vertex.
AdjPosition(j) ==
  LET el == batched.adjlist_[batched.all_edges_src_[j + 1] + 1]
  IN CHOOSE q \in 1..Len(el.edge_id) : el.edge_id[q] = j

\* C7: the line graph has one vertex per edge of g; its edges are, with
\* multiplicity, the pairs (i, j) with edge i = (u, v) and edge j = (v, w),
\* in increasing i and for each i in v's adjacency-list order; without
\* backtracking exactly the pairs with w = u are left out.
C7_LineGraph ==
  (repr = "Graph" /\ pc = "linegraph")
  => LET E == NumEdges(batched)
         ls == lg.all_edges_src_
         ld == lg.all_edges_dst_
     IN /\ NumVertices(lg) = E
        /\ Len(ls) = NumEdges(lg) /\ Len(ld) = NumEdges(lg)
        /\ \A i, j \in 0..(E - 1) :
             Cardinality({p \in 1..Len(ls) : ls[p] = i /\ ld[p] = j})
               = IF LineGraphPair(i, j) THEN 1 ELSE 0
        /\ \A p \in 1..Len(ls) : ls[p] \in 0..(E - 1) /\ ld[p] \in 0..(E - 1)
        /\ \A p, q \in 1..Len(ls) :
             p < q => \/ ls[p] < ls[q]
                      \/ ls[p] = ls[q] /\ AdjPosition(ld[p]) < AdjPosition(ld[q])
        /\ ~backtracking =>
             \A p \in 1..Len(ls) :
               batched.all_edges_dst_[ld[p] + 1] # batched.all_edges_src_[ls[p] + 1]

\* A line graph built without backtracking that keeps one length-2 path and
\* leaves out another one that returns to its start.
C7_Witness ==
  /\ repr = "Graph" /\ pc = "linegraph" /\ ~backtracking
  /\ NumEdges(lg) >= 1
  /\ \E i, j \in 0..(NumEdges(batched) - 1) :
       /\ batched.all_edges_dst_[i + 1] = batched.all_edges_src_[j + 1]
       /\ batched.all_edges_dst_[j + 1] = batched.all_edges_src_[i + 1]

Abs(x) == IF x < 0 THEN 0 - x ELSE x

\* C3: DisjointPartitionByNum(g, k) fails whenever k = 0 or NumVertices(g)
\* is not a multiple of k, DisjointPartitionBySizes(g, sizes) fails whenever
\* sum(sizes) # NumVertices(g), for both representations; a failing call has
\* not allocated or filled any output graph.
C3_PartitionValidation ==
  /\ (op = "DisjointPartitionByNum" /\ (num = 0 \/ BatchedNumVertices % Abs(num) # 0))
       => pc = "error"
  /\ (op = "DisjointPartitionBySizes" /\ SumSeq(sizes) # BatchedNumVertices)
       => pc = "error"
  /\ (op \in {"DisjointPartitionByNum", "DisjointPartitionBySizes"} /\ pc = "error")
       => ~allocated /\ rst = <<>>

\* A CSR graph with vertices whose partition into a number of parts that
\* does not divide its vertex count has failed.
C3_Witness ==
  /\ repr = "ImmutableGraph" /\ op = "DisjointPartitionByNum" /\ pc = "error"
  /\ num > 1 /\ BatchedNumVertices > 0 /\ BatchedNumVertices % num # 0

\* C5: the union of the in-CSRs has an indptr of total vertices + 1 entries
\* starting at 0, row r >= 1 of graph k lands at VerticesBefore(k) + r with
\* its value raised by EdgesBefore(k); indices and edge_ids are the graphs'
\* arrays concatenated, shifted by the cumulative vertex and edge counts;
\* indptr is non-decreasing and ends at the total edge count.
C5_CSRUnionLayout ==
  (repr = "ImmutableGraph" /\ pc # "build")
  => /\ Len(batched.indptr) = CSRTotalVertices + 1
     /\ batched.indptr[1] = 0
     /\ Len(batched.indices) = CSRTotalEdges
     /\ Len(batched.edge_ids) = CSRTotalEdges
     /\ \A k \in 1..Len(graphs) :
          /\ \A r \in 1..CSRNumVertices(graphs[k]) :
               batched.indptr[CSRVerticesBefore(k) + r + 1]
                 = graphs[k].indptr[r + 1] + CSREdgesBefore(k)
          /\ \A e \in 1..CSRNumEdges(graphs[k]) :
               /\ batched.indices[CSREdgesBefore(k) + e]
                    = graphs[k].indices[e] + CSRVerticesBefore(k)
               /\ batched.edge_ids[CSREdgesBefore(k) + e]
                    = graphs[k].edge_ids[e] + CSREdgesBefore(k)
     /\ \A r \in 1..(Len(batched.indptr) - 1) : batched.indptr[r] <= batched.indptr[r + 1]
     /\ batched.indptr[Len(batched.indptr)] = CSRTotalEdges

\* Two immutable graphs that both bring edges have been batched.
C5_Witness ==
  /\ repr = "ImmutableGraph" /\ pc = "batched"
  /\ Len(graphs) = 2
  /\ CSRNumEdges(graphs[1]) >= 1
  /\ CSRNumEdges(graphs[2]) >= 1
  /\ batched.indptr[Len(batched.indptr)] = 2

\* Some row of partition i's vertex range names a neighbour outside the range.
CrossesPartition(bg, s) ==
  LET cumsum == CumSum(s)
  IN \E i \in 1..Len(s) :
       \E j \in (bg.indptr[cumsum[i] + 1] + 1)..bg.indptr[cumsum[i + 1] + 1] :
         bg.indices[j] < cumsum[i] \/ bg.indices[j] >= cumsum[i + 1]

\* C6: CSR DisjointPartitionBySizes rejects a batched graph and size list in
\* which a partition's rows reference a neighbour outside the partition, so
\* in every call that returns, partition i's indices lie in [0, sizes[i]) and
\* its edge_ids in [0, number of edges of partition i).
C6_CrossPartitionRejected ==
  (repr = "ImmutableGraph" /\ pc = "done")
  => /\ ~CrossesPartition(batched, sizes)
     /\ \A i \in 1..Len(rst) :
          /\ \A j \in 1..Len(rst[i].indices) : rst[i].indices[j] \in 0..(sizes[i] - 1)
          /\ \A j \in 1..Len(rst[i].edge_ids) :
               rst[i].edge_ids[j] \in 0..(Len(rst[i].indices) - 1)

\* ------------------------------------------------------- array claims
\* The output array as a sequence, once every slot is written.
Output == [i \in 1..rst_len |-> rst_data[i - 1]]

\* What the scan-based strategy returns for (parent_vids, query).
ScanStrategy ==
  [i \in 1..Len(query.data) |-> ScanLookup(parent_vids.data, query.data[i])]

\* The map after inserting positions 0..n-1 in order.
RECURSIVE BuildMap(_, _)
BuildMap(d, n) ==
  IF n = 0 THEN EmptyMap ELSE MapInsert(BuildMap(d, n - 1), d[n], n - 1)

\* What the hash-map strategy returns for (parent_vids, query).
HashStrategy ==
  [i \in 1..Len(query.data) |->
     HashLookup(BuildMap(parent_vids.data, Len(parent_vids.data)), query.data[i])]

UniqueValues(d) == \A p, q \in 1..Len(d) : d[p] = d[q] => p = q

\* C8 as stated: for every parentIds, duplicates included, and every query
\* the two strategies return the same array, which is the array returned.
C8_StrategiesAgree ==
  (op = "MapParentIdToSubgraphId" /\ pc = "done")
  => Output = ScanStrategy /\ ScanStrategy = HashStrategy

\* C8 amended: for every parentIds whose values are pairwise distinct and
\* every query the two strategies return the same array, which is the array
\* returned by whichever path ran.
C8_StrategiesAgreeOnUnique ==
  (op = "MapParentIdToSubgraphId" /\ pc = "done" /\ UniqueValues(parent_vids.data))
  => Output = ScanStrategy /\ ScanStrategy = HashStrategy

\* The hash path has answered a query with one id that is present, not at
\* position 0, and one that is absent.
C8_Witness ==
  /\ op = "MapParentIdToSubgraphId" /\ pc = "done"
  /\ ~is_sorted /\ UniqueValues(parent_vids.data)
  /\ \E i, j \in 0..(rst_len - 1) : rst_data[i] > 0 /\ rst_data[j] = -1

\* C9: ExpandIds fails before allocating when len(ids) + 1 # len(offset);
\* otherwise, for a non-decreasing offset starting at 0, the output has
\* offset[last] slots, each written exactly once, and slot p holds ids[i]
\* for offset[i] <= p < offset[i + 1].
C9_ExpandIds ==
  (op = "ExpandIds" /\ pc # "call")
  => /\ Len(ids.data) + 1 # Len(offset.data) => pc = "error" /\ ~allocated
     /\ (/\ Len(ids.data) + 1 = Len(offset.data)
         /\ offset.data[1] = 0
         /\ \A i \in 1..(Len(offset.data) - 1) : offset.data[i] <= offset.data[i + 1])
        => /\ pc = "done"
           /\ rst_len = offset.data[Len(offset.data)]
           /\ DOMAIN rst_data = 0..(rst_len - 1)
           /\ \A p \in 1..rst_len : Len(writes[p]) = 1
           /\ \A i \in 1..Len(ids.data) :
                \A p \in offset.data[i]..(offset.data[i + 1] - 1) :
                  rst_data[p] = ids.data[i]

\* ExpandIds([1, 0], [0, 2, 3]) has returned [1, 1, 0].
C9_Witness ==
  /\ op = "ExpandIds" /\ pc = "done"
  /\ ids.data = <<1, 0>> /\ offset.data = <<0, 2, 3>>
  /\ rst_len = 3
  /\ rst_data[0] = 1 /\ rst_data[1] = 1 /\ rst_data[2] = 0

\* The state part of C10: a slot is written at most once, by the thread its
\* iteration was handed to and only once the strategy is chosen and the map
\* complete; the returned array has every slot written once and, for
\* unique-valued parent_vids, holds the position of query[i] or -1.
C10_State ==
  op = "MapParentIdToSubgraphId"
  => /\ \A i \in 1..Len(writes) :
          /\ Len(writes[i]) <= 1
          /\ writes[i] # <<>> => pc \in {"parallel", "done"} /\ writes[i] = <<sched[i]>>
     /\ pc \in {"parallel", "done"}
          => /\ is_sorted = IsSorted(parent_vids.data)
             /\ ~is_sorted =>
                  /\ built = Len(parent_vids.data)
                  /\ DOMAIN parent_map = {parent_vids.data[p] : p \in 1..Len(parent_vids.data)}
                  /\ \A k \in DOMAIN parent_map : parent_vids.data[parent_map[k] + 1] = k
     /\ pc = "done"
          => /\ rst_len = Len(query.data)
             /\ DOMAIN rst_data = 0..(rst_len - 1)
             /\ \A i \in 1..rst_len : Len(writes[i]) = 1
             /\ UniqueValues(parent_vids.data) =>
                  \A i \in 0..(rst_len - 1) :
                    \/ /\ rst_data[i] = -1
                       /\ \A p \in 1..Len(parent_vids.data) :
                            parent_vids.data[p] # query.data[i + 1]
                    \/ /\ rst_data[i] \in 0..(Len(parent_vids.data) - 1)
                       /\ parent_vids.data[rst_data[i] + 1] = query.data[i + 1]

\* The step part of C10: while the workers run, nothing writes parent_map,
\* parent_vids, query or the chosen strategy.
C10_Step ==
  pc = "parallel"
  => /\ parent_map' = parent_map
     /\ parent_vids' = parent_vids
     /\ query' = query
     /\ is_sorted' = is_sorted

\* C10: the strategy is chosen and the map completely built before a worker
\* runs; no worker writes parent_map, parent_vids or query; slot i is written
\* exactly once, by the thread that runs iteration i, under every hand-out of
\* the iterations and every interleaving; for unique-valued parent_vids the
\* returned slot i is the position of query[i], or -1.
C10_ParallelResolution == [](C10_State) /\ [][C10_Step]_vars

\* On the hash path, with the two iterations on different threads, the
\* second slot has been written while the first is still pending.
C10_Witness ==
  /\ op = "MapParentIdToSubgraphId" /\ pc = "parallel"
  /\ ~is_sorted
  /\ rst_len = 2 /\ sched[1] # sched[2]
  /\ writes[1] = <<>> /\ writes[2] # <<>>

\* C4: every operation that takes an array fails, before it reads the
\* array's data or allocates its output, whenever an argument is not a
\* host-resident one-dimensional signed 64-bit integer array.
C4_InvalidArraysRejected ==
  (/\ pc # "call"
   /\ \/ op = "MapParentIdToSubgraphId"
           /\ (~IsValidIdArray(parent_vids) \/ ~IsValidIdArray(query))
      \/ op = "ExpandIds" /\ (~IsValidIdArray(ids) \/ ~IsValidIdArray(offset)))
  => pc = "error" /\ ~data_read /\ ~allocated

====
